---- MODULE Spec2Model ----
\* Model of the FFmpeg provisioning manager (ffmpeg-downloader.js, kept as
\* src/unnamed/part_000) and of the Electron main process that drives it
\* (main.js, kept as src/unnamed/part_001).
\*
\* Granularity: inside one OS process JavaScript runs to completion, so one
\* action is one stretch of code between two awaits (microtask continuations
\* included).  Different OS processes interleave at system-call level; the one
\* place where that matters, between fs.existsSync(lockFile) and
\* fs.writeFileSync(lockFile), is split into two steps ("locking").
EXTENDS Integers, FiniteSets, Sequences, TLC

\* ------------------------------------------------------------------ bounds
NProcs == 2      \* OS processes sharing the install directory
NMgrs  == 2      \* FFmpegDownloader instances constructed over the run
NCalls == 2      \* ensureFFmpeg() calls / IPC requests over the run

\* ------------------------------------------------------- program constants
MaxPolls == 300  \* for (let i = 0; i < 300; i++)

Procs == 1..NProcs
Mgrs  == 1..NMgrs
Calls == 1..NCalls

\* keys of FFMPEG_URLS
FFMPEG_URLS == {"win32", "darwin", "linux"}
\* values process.platform is drawn from: the three keys and one other tag
Platforms == FFMPEG_URLS \cup {"freebsd"}

\* content of the remote archive: where the binary sits inside it
Layouts == {"flat", "bin", "nestedFlat", "nestedBin", "empty"}

AppKinds == {"warmup", "compress", "metadata"}
Kinds    == AppKinds \cup {"direct"}

VARIABLES
    platform,        \* process.platform (same machine for every process)
    dirExists,       \* this.ffmpegDir exists
    lockFile,        \* 0: .download.lock absent; c: written by call c's attempt
    tempFile,        \* ffmpeg-download<ext> exists
    binDirect,       \* <dir>/<binaryName> exists
    binBin,          \* <dir>/bin/<binaryName> exists
    nestedBin,       \* <dir>/ffmpeg-*/bin/ffmpeg.exe exists
    mgrProc,         \* mgrProc[m]: process that constructed manager m (0: none)
    mainWindow,      \* mainWindow[m]: the window manager m was constructed with
    ffmpegPath,      \* this.ffmpegPath of manager m
    downloadPromise, \* this.downloadPromise of manager m (0: null, c: attempt of call c)
    gFfmpeg,         \* module variable ffmpeg of process p (non-null?)
    gFfmpegPath,     \* module variable ffmpegPath of process p
    gDownloader,     \* module variable ffmpegDownloader of process p
    calls,           \* one record per ensureFFmpeg() call / IPC request
    dlCount,         \* history: downloadFile() requests issued by process p
    dlFailed,        \* history: acquisitions of process p that rejected
    verified,        \* history: some ensureFFmpeg() stored a path it found present
    ceilingHit,      \* history: some wait loop ran out with the lock file still there
    probe,           \* compress-video: width and height of the probed video stream
    options,         \* compress-video: the options of the request
    command,         \* compress-video: the fluent-ffmpeg command that was built
    faults,          \* whether fs.unlinkSync(lockFile) can throw in this run
    output,          \* metadata probe: the lines of ffmpeg's diagnostic text
    parsed,          \* metadata probe: what parseFFmpegOutput() made of it
    jobs,            \* jobs[j]: the compress-video invocation j and its promise
    listeners,       \* renderer: the 'compression-progress' listeners registered
    sent,            \* history: the 'compression-progress' messages sent
    delivered        \* history: which listener passed which job's progress on

provVars == <<dirExists, lockFile, tempFile, binDirect, binBin, nestedBin,
              mgrProc, mainWindow, ffmpegPath, downloadPromise, gFfmpeg, gFfmpegPath,
              gDownloader, calls, dlCount, dlFailed, verified, ceilingHit>>
planVars == <<probe, options, command>>

parseVars == <<output, parsed>>
jobVars == <<jobs, listeners, sent, delivered>>

vars == <<platform, provVars, planVars, faults, parseVars, jobVars>>

\* what the provisioning steps leave alone, and what building a command does
nonProvVars == <<planVars, faults, parseVars, jobVars>>
nonPlanVars == <<provVars, faults, parseVars, jobVars>>
nonParseVars == <<platform, provVars, planVars, faults, jobVars>>
nonJobVars == <<platform, provVars, planVars, faults, parseVars>>

fsVars  == <<dirExists, lockFile, tempFile, binDirect, binBin, nestedBin>>
appVars == <<gFfmpeg, gFfmpegPath, gDownloader>>

NoCall == [pc |-> "unused", kind |-> "direct", mgr |-> 0, polls |-> 0,
           wrote |-> FALSE, extracted |-> FALSE, join |-> 0, group |-> 0,
           result |-> "none", hasPath |-> FALSE, outcome |-> "none",
           prov |-> FALSE, sentStart |-> FALSE, sentComplete |-> FALSE]

\* no compress-video command built (yet)
NoProbe == [width |-> 0, height |-> 0]
NoOptions == [quality |-> "none", format |-> "none", heightOverride |-> 0,
              videoBitrateOverride |-> "none", audioBitrateOverride |-> "none"]
NoCommand == [built |-> FALSE]

\* parseFFmpegOutput() not called (yet)
NoOutput == <<>>
NoParse == [status |-> "none", width |-> 0, height |-> 0, codec |-> "", bitRate |-> 0]

\* bound: compress-video invocations
NJobs == 2
Jobs == 1..NJobs

\* the fileId of a request: values that are falsy in JavaScript, and strings
FalsyIds == {"null", "empty"}
FileIds == FalsyIds \cup {"a", "b", "unknown"}

NoJob == [state |-> "idle", fileId |-> "null", settles |-> 0]

InitJobs ==
    /\ jobs = [j \in Jobs |-> NoJob]
    /\ listeners = {}
    /\ sent = {}
    /\ delivered = {}

InitProv ==
    /\ dirExists = FALSE
    /\ lockFile = 0
    /\ tempFile = FALSE
    /\ binDirect = FALSE
    /\ binBin = FALSE
    /\ nestedBin = FALSE
    /\ mgrProc = [m \in Mgrs |-> 0]
    /\ mainWindow = [m \in Mgrs |-> "null"]
    /\ ffmpegPath = [m \in Mgrs |-> "null"]
    /\ downloadPromise = [m \in Mgrs |-> 0]
    /\ gFfmpeg = [p \in Procs |-> FALSE]
    /\ gFfmpegPath = [p \in Procs |-> "null"]
    /\ gDownloader = [p \in Procs |-> 0]
    /\ calls = [c \in Calls |-> NoCall]
    /\ dlCount = [p \in Procs |-> 0]
    /\ dlFailed = [p \in Procs |-> 0]
    /\ verified = FALSE
    /\ ceilingHit = FALSE

Init ==
    /\ platform \in Platforms
    /\ InitProv
    /\ faults = FALSE
    /\ output = NoOutput
    /\ parsed = NoParse
    /\ InitJobs
    /\ probe = NoProbe
    /\ options = NoOptions
    /\ command = NoCommand

\* ---------------------------------------------------------------- helpers
IsPath(r) == r \in {"direct", "bin"}

\* getFFmpegPath(): the directory, then the direct path, then bin/
getFFmpegPath(dir, direct, bin) ==
    IF ~dir THEN "null"
    ELSE IF direct THEN "direct"
    ELSE IF bin THEN "bin"
    ELSE "null"

\* fs.existsSync(path) for a value returned by getFFmpegPath()
existsSync(path, direct, bin) ==
    \/ path = "direct" /\ direct
    \/ path = "bin" /\ bin

\* mutant of hasUrl: the check for a missing URL is left out
hasUrlUnchecked(plat) == plat \in Platforms

\* const url = FFMPEG_URLS[platform]; if (!url) throw
hasUrl(plat) == plat \in FFMPEG_URLS

\* calls are handed out in order
NextCall == IF \E c \in Calls : calls[c].pc = "unused"
            THEN CHOOSE c \in Calls : /\ calls[c].pc = "unused"
                                      /\ \A d \in 1..(c-1) : calls[d].pc # "unused"
            ELSE 0
NextMgr == IF \E m \in Mgrs : mgrProc[m] = 0
           THEN CHOOSE m \in Mgrs : /\ mgrProc[m] = 0
                                    /\ \A k \in 1..(m-1) : mgrProc[k] # 0
           ELSE 0

ProcOf(c) == mgrProc[calls[c].mgr]
Driving(c) == calls[c].pc \in {"waiting", "locking", "downloading", "extracting", "chmod"}

\* a process that has checked the lock and not yet written it is still inside
\* the same synchronous stretch: nothing else of that process runs in between
Busy(p) == \E c \in Calls : calls[c].pc = "locking" /\ ProcOf(c) = p

\* calls on manager m that have not settled yet
Pending(m) == {d \in Calls : calls[d].mgr = m /\ (Driving(d) \/ calls[d].pc = "joined")}

\* history: the first of the calls on m that are in flight together with a new
\* call c (c itself when none is in flight)
GroupOf(c, m) == IF Pending(m) = {} THEN c
                 ELSE calls[CHOOSE d \in Pending(m) : TRUE].group


\* what the handler that awaited initializeFFmpeg() does next (part_001 lines
\* 141-150 and 400-409): not initialized -> "not available"; no filePath ->
\* "File path is missing"; otherwise it goes on to probe the file
HandlerOutcome(kind, hasPath, initialized) ==
    IF kind \notin {"compress", "metadata"} THEN "none"
    ELSE IF ~initialized THEN "unavailable"
    ELSE IF ~hasPath THEN "missingInput"
    ELSE "proceeded"

\* mutant of settle: only the call that started the attempt settles
settleDriverOnly(cs, c, res) ==
    [d \in Calls |->
        IF d = c
        THEN [cs[d] EXCEPT !.pc = IF IsPath(res) THEN "resolved" ELSE "rejected",
                           !.result = res, !.extracted = FALSE,
                           !.outcome = HandlerOutcome(cs[d].kind, cs[d].hasPath, IsPath(res))]
        ELSE cs[d]]

\* the promise of call c's attempt settles with res: c and every call that was
\* handed the same promise settle with it
settle(cs, c, res) ==
    [d \in Calls |->
        IF d = c \/ (cs[d].pc = "joined" /\ cs[d].join = c)
        THEN [cs[d] EXCEPT !.pc = IF IsPath(res) THEN "resolved" ELSE "rejected",
                           !.result = res, !.extracted = FALSE,
                           !.outcome = HandlerOutcome(cs[d].kind, cs[d].hasPath, IsPath(res))]
        ELSE cs[d]]

\* what the extraction tool of the platform puts where, for an archive layout:
\* Expand-Archive and unzip keep the archive's paths, tar strips one component
extractFFmpeg(plat, layout) ==
    IF plat = "win32" THEN
        [direct |-> layout = "flat", bin |-> layout = "bin", nested |-> layout = "nestedBin"]
    ELSE IF plat = "darwin" THEN
        [direct |-> layout = "flat", bin |-> layout = "bin", nested |-> FALSE]
    ELSE
        [direct |-> layout \in {"nestedFlat", "bin"}, bin |-> layout = "nestedBin", nested |-> FALSE]

\* what this.mainWindow is found to be where the code looks at it (read: the
\* code gets as far as the test): a window that was open may have been closed
\* since the last look, a destroyed window stays destroyed, null stays null
isDestroyed(win, read) ==
    IF read /\ win = "open" THEN {"open", "destroyed"} ELSE {win}

\* if (this.mainWindow && !this.mainWindow.isDestroyed()) send 'ffmpeg-download-start'
notifyStart(win) == win = "open"

\* mutant of notifyComplete: the notification does not depend on the outcome
notifyCompleteAlways(win, res) == win = "open"

\* 'ffmpeg-download-complete' is sent by _performDownload() after the path was
\* found, to a window that is there and not destroyed
notifyComplete(win, res) == win = "open" /\ IsPath(res)

\* -------------------------------------------------- ensureFFmpeg(), start
\* The synchronous start of ensureFFmpeg() for call c on manager m of process p,
\* down to the first await of downloadFFmpeg().
ensureFFmpeg(c, m, p, kind, hp) ==
    LET existing == getFFmpegPath(dirExists, binDirect, binBin)
        rec == [NoCall EXCEPT !.kind = kind, !.mgr = m, !.hasPath = hp,
                              !.group = GroupOf(c, m)]
    IN
    IF existing # "null" /\ existsSync(existing, binDirect, binBin) THEN
        \* already downloaded
        /\ ffmpegPath' = [ffmpegPath EXCEPT ![m] = existing]
        /\ calls' = [calls EXCEPT ![c] =
                [rec EXCEPT !.pc = "resolved", !.result = existing,
                            !.outcome = HandlerOutcome(kind, hp, TRUE)]]
        /\ gFfmpegPath' = IF kind \in AppKinds
                          THEN [gFfmpegPath EXCEPT ![p] = existing]
                          ELSE gFfmpegPath
        /\ verified' = TRUE
        /\ UNCHANGED <<fsVars, downloadPromise, dlFailed>>
    ELSE IF downloadPromise[m] # 0 THEN
        \* download already in progress: return the existing promise
        /\ calls' = [calls EXCEPT ![c] =
                [rec EXCEPT !.pc = "joined", !.join = downloadPromise[m]]]
        /\ UNCHANGED <<fsVars, ffmpegPath, downloadPromise, gFfmpegPath, dlFailed, verified>>
    ELSE IF ~hasUrl(platform) THEN
        \* downloadFFmpeg() throws before touching anything
        /\ calls' = [calls EXCEPT ![c] =
                [rec EXCEPT !.pc = "rejected", !.result = "unsupported",
                            !.outcome = HandlerOutcome(kind, hp, FALSE)]]
        /\ dlFailed' = [dlFailed EXCEPT ![p] = @ + 1]
        /\ UNCHANGED <<fsVars, ffmpegPath, downloadPromise, gFfmpegPath, verified>>
    ELSE
        \* start the download: mkdir, then look at the lock file
        /\ dirExists' = TRUE
        /\ downloadPromise' = [downloadPromise EXCEPT ![m] = c]
        /\ calls' = [calls EXCEPT ![c] =
                [rec EXCEPT !.pc = IF lockFile # 0 THEN "waiting" ELSE "locking",
                            !.prov = TRUE,
                            !.sentStart = notifyStart(mainWindow'[m])]]
        /\ UNCHANGED <<lockFile, tempFile, binDirect, binBin, nestedBin,
                       ffmpegPath, gFfmpegPath, dlFailed, verified>>

\* initializeFFmpeg(): a new FFmpegDownloader and one ensureFFmpeg() on it
initializeFFmpeg(c, m, p, kind, hp) ==
    /\ mgrProc' = [mgrProc EXCEPT ![m] = p]
    /\ mainWindow' = [mainWindow EXCEPT ![m] = IF kind = "warmup" THEN "open" ELSE "null"]
    /\ gFfmpeg' = [gFfmpeg EXCEPT ![p] = TRUE]
    /\ gDownloader' = [gDownloader EXCEPT ![p] = m]
    /\ ensureFFmpeg(c, m, p, kind, hp)
    /\ UNCHANGED <<platform, dlCount, ceilingHit>>

\* app.whenReady(): the warm-up, before any window can send a request
WarmUp(p) ==
    /\ UNCHANGED nonProvVars
    /\ ~gFfmpeg[p]
    /\ \A q \in 1..(p - 1) : gFfmpeg[q]
    /\ ~Busy(p)
    /\ NextCall # 0 /\ NextMgr # 0
    /\ initializeFFmpeg(NextCall, NextMgr, p, "warmup", FALSE)

\* 'compress-video' / 'get-video-metadata' while the module's ffmpegPath is
\* still null: initializeFFmpeg() again, then the filePath check
RequestInit(p, kind, hp) ==
    /\ UNCHANGED nonProvVars
    /\ gFfmpeg[p]
    /\ gFfmpegPath[p] = "null"
    /\ ~Busy(p)
    /\ NextCall # 0 /\ NextMgr # 0
    /\ initializeFFmpeg(NextCall, NextMgr, p, kind, hp)

\* the same handlers once ffmpegPath is set: only the filePath check
RequestReady(p, kind, hp) ==
    /\ UNCHANGED nonProvVars
    /\ gFfmpeg[p]
    /\ gFfmpegPath[p] # "null"
    /\ ~Busy(p)
    /\ NextCall # 0
    /\ calls' = [calls EXCEPT ![NextCall] =
            [NoCall EXCEPT !.pc = "done", !.kind = kind, !.hasPath = hp,
                           !.outcome = HandlerOutcome(kind, hp, TRUE)]]
    /\ UNCHANGED <<platform, fsVars, mgrProc, mainWindow, ffmpegPath, downloadPromise,
                   appVars, dlCount, dlFailed, verified, ceilingHit>>

\* one more ensureFFmpeg() on an existing manager
DirectCall(m) ==
    /\ UNCHANGED nonProvVars
    /\ mgrProc[m] # 0
    /\ ~Busy(mgrProc[m])
    /\ NextCall # 0
    /\ \E win \in isDestroyed(mainWindow[m],
                                /\ getFFmpegPath(dirExists, binDirect, binBin) = "null"
                                /\ downloadPromise[m] = 0) :
          mainWindow' = [mainWindow EXCEPT ![m] = win]
    /\ UNCHANGED <<platform, mgrProc, gFfmpeg, gDownloader, dlCount, ceilingHit>>
    /\ ensureFFmpeg(NextCall, m, mgrProc[m], "direct", FALSE)


\* ------------------------------------------------------ downloadFFmpeg()
\* mutant of Poll: the loop bound is off by one (i <= 300)
PollOffByOne(c) ==
    /\ UNCHANGED nonProvVars
    /\ calls[c].pc = "waiting"
    /\ ~Busy(ProcOf(c))
    /\ calls' = [calls EXCEPT ![c].polls = @ + 1,
                              ![c].pc = IF lockFile = 0 \/ calls[c].polls + 1 > MaxPolls
                                        THEN "locking" ELSE "waiting"]
    /\ ceilingHit' = (ceilingHit \/ (lockFile # 0 /\ calls[c].polls + 1 > MaxPolls))
    /\ UNCHANGED <<platform, fsVars, mgrProc, mainWindow, ffmpegPath, downloadPromise,
                   appVars, dlCount, dlFailed, verified>>

\* one turn of the wait loop: a 1 s timer, then fs.existsSync(lockFile)
Poll(c) ==
    /\ UNCHANGED nonProvVars
    /\ calls[c].pc = "waiting"
    /\ ~Busy(ProcOf(c))
    /\ calls' = [calls EXCEPT ![c].polls = @ + 1,
                              ![c].pc = IF lockFile = 0 \/ calls[c].polls + 1 >= MaxPolls
                                        THEN "locking" ELSE "waiting"]
    /\ ceilingHit' = (ceilingHit \/ (lockFile # 0 /\ calls[c].polls + 1 >= MaxPolls))
    /\ UNCHANGED <<platform, fsVars, mgrProc, mainWindow, ffmpegPath, downloadPromise,
                   appVars, dlCount, dlFailed, verified>>

\* fs.writeFileSync(lockFile) inside try/catch (ok: the write went through),
\* then downloadFile() issues the request
WriteLock(c, ok) ==
    /\ UNCHANGED nonProvVars
    /\ calls[c].pc = "locking"
    /\ lockFile' = IF ok THEN c ELSE lockFile
    /\ calls' = [calls EXCEPT ![c].pc = "downloading", ![c].wrote = ok, ![c].polls = 0]
    /\ dlCount' = [dlCount EXCEPT ![ProcOf(c)] = @ + 1]
    /\ UNCHANGED <<platform, dirExists, tempFile, binDirect, binBin, nestedBin,
                   mgrProc, mainWindow, ffmpegPath, downloadPromise, appVars, dlFailed, verified, ceilingHit>>

\* fs.unlinkSync(lockFile) in the finally block, reached when the file exists:
\* whether it throws
unlinkSyncThrows(lock) == IF faults /\ lock # 0 THEN {FALSE, TRUE} ELSE {FALSE}

\* mutant of Finish: the lock file is removed after a successful extraction
\* only, not in a finally block
FinishNoFinally(c, res) ==
    LET m == calls[c].mgr
        p == mgrProc[m]
    IN
    /\ lockFile' = IF IsPath(res) THEN 0 ELSE lockFile
    /\ downloadPromise' = [downloadPromise EXCEPT ![m] = 0]
    /\ \E win \in isDestroyed(mainWindow[m], IsPath(res)) :
          /\ mainWindow' = [mainWindow EXCEPT ![m] = win]
          /\ calls' = [settle(calls, c, res) EXCEPT
                          ![c].sentComplete = notifyComplete(win, res)]
    /\ ffmpegPath' = IF IsPath(res) THEN [ffmpegPath EXCEPT ![m] = res] ELSE ffmpegPath
    /\ gFfmpegPath' = IF IsPath(res) /\ calls[c].kind \in AppKinds
                      THEN [gFfmpegPath EXCEPT ![p] = res]
                      ELSE gFfmpegPath
    /\ dlFailed' = IF IsPath(res) THEN dlFailed ELSE [dlFailed EXCEPT ![p] = @ + 1]
    /\ verified' = (verified \/ IsPath(res))
    /\ UNCHANGED <<platform, dirExists, mgrProc, gFfmpeg, gDownloader, dlCount, ceilingHit>>

\* the end of an attempt: the finally block of downloadFFmpeg() removes the
\* lock file if there is one (an exception of unlinkSync leaves the block and
\* becomes the outcome), _performDownload() stores the path it found and the
\* promise settles (.finally clears downloadPromise), initializeFFmpeg() and
\* the handler that awaited it continue
Finish(c, res) ==
    LET m == calls[c].mgr
        p == mgrProc[m]
    IN
    \E thrown \in unlinkSyncThrows(lockFile) :
       LET out == IF thrown THEN "unlink" ELSE res
       IN
       /\ lockFile' = IF thrown THEN lockFile ELSE 0
       /\ downloadPromise' = [downloadPromise EXCEPT ![m] = 0]
       /\ \E win \in isDestroyed(mainWindow[m], IsPath(out)) :
             /\ mainWindow' = [mainWindow EXCEPT ![m] = win]
             /\ calls' = [settle(calls, c, out) EXCEPT
                             ![c].sentComplete = notifyComplete(win, out)]
       /\ ffmpegPath' = IF IsPath(out) THEN [ffmpegPath EXCEPT ![m] = out] ELSE ffmpegPath
       /\ gFfmpegPath' = IF IsPath(out) /\ calls[c].kind \in AppKinds
                         THEN [gFfmpegPath EXCEPT ![p] = out]
                         ELSE gFfmpegPath
       /\ dlFailed' = IF IsPath(out) THEN dlFailed ELSE [dlFailed EXCEPT ![p] = @ + 1]
       /\ verified' = (verified \/ IsPath(out))
       /\ UNCHANGED <<platform, dirExists, mgrProc, gFfmpeg, gDownloader, dlCount, ceilingHit>>

\* mutant of performDownload: the path is returned without the existence check
performDownloadUnchecked(direct, bin) ==
    IF direct THEN "direct" ELSE "bin"

\* downloadFFmpeg() returned: _performDownload() resolves the binary again
performDownload(direct, bin) ==
    LET downloadedPath == getFFmpegPath(TRUE, direct, bin)
    IN IF downloadedPath = "null" \/ ~existsSync(downloadedPath, direct, bin)
       THEN "incomplete" ELSE downloadedPath

\* downloadFile() resolved: the archive is in the temp file, extraction starts
DownloadDone(c) ==
    /\ UNCHANGED nonProvVars
    /\ calls[c].pc = "downloading"
    /\ ~Busy(ProcOf(c))
    /\ tempFile' = TRUE
    /\ calls' = [calls EXCEPT ![c].pc = "extracting"]
    /\ UNCHANGED <<platform, dirExists, lockFile, binDirect, binBin, nestedBin,
                   mgrProc, mainWindow, ffmpegPath, downloadPromise, appVars, dlCount,
                   dlFailed, verified, ceilingHit>>

\* downloadFile() rejected.  mode "request": error before any byte was written;
\* "timeout": the request is destroyed, what was written stays; "stream": the
\* write stream failed and its handler unlinks the destination
DownloadFail(c, mode) ==
    /\ UNCHANGED nonProvVars
    /\ calls[c].pc = "downloading"
    /\ ~Busy(ProcOf(c))
    /\ tempFile' = CASE mode = "request" -> tempFile
                     [] mode = "timeout" -> TRUE
                     [] mode = "stream"  -> FALSE
    /\ Finish(c, "network")
    /\ UNCHANGED <<binDirect, binBin, nestedBin>>

\* the extraction tool (a child process) writes the archive's files
ExtractWrite(c, layout) ==
    /\ UNCHANGED nonProvVars
    /\ calls[c].pc = "extracting"
    /\ ~calls[c].extracted
    /\ LET w == extractFFmpeg(platform, layout)
       IN /\ binDirect' = (binDirect \/ w.direct)
          /\ binBin' = (binBin \/ w.bin)
          /\ nestedBin' = (nestedBin \/ w.nested)
    /\ calls' = [calls EXCEPT ![c].extracted = TRUE]
    /\ UNCHANGED <<platform, dirExists, lockFile, tempFile, mgrProc, mainWindow, ffmpegPath,
                   downloadPromise, appVars, dlCount, dlFailed, verified, ceilingHit>>

\* extractFFmpeg() resolved: on win32 the nested ffmpeg.exe is copied to the
\* root; the temp file is unlinked; on other platforms chmod +x is awaited when
\* getFFmpegPath() finds the binary, otherwise the attempt ends here
ExtractDone(c) ==
    /\ UNCHANGED nonProvVars
    /\ calls[c].pc = "extracting"
    /\ calls[c].extracted
    /\ ~Busy(ProcOf(c))
    /\ LET direct == (binDirect \/ (platform = "win32" /\ nestedBin))
       IN /\ binDirect' = direct
          /\ tempFile' = FALSE
          /\ UNCHANGED <<binBin, nestedBin>>
          /\ IF platform # "win32" /\ getFFmpegPath(TRUE, direct, binBin) # "null"
             THEN /\ calls' = [calls EXCEPT ![c].pc = "chmod"]
                  /\ UNCHANGED <<platform, dirExists, lockFile, mgrProc, mainWindow, ffmpegPath,
                                 downloadPromise, appVars, dlCount, dlFailed, verified, ceilingHit>>
             ELSE Finish(c, performDownload(direct, binBin))

\* the extraction tool failed; what it had written stays
ExtractFail(c) ==
    /\ UNCHANGED nonProvVars
    /\ calls[c].pc = "extracting"
    /\ ~Busy(ProcOf(c))
    /\ Finish(c, "extract")
    /\ UNCHANGED <<tempFile, binDirect, binBin, nestedBin>>

\* chmod +x returned
ChmodDone(c) ==
    /\ UNCHANGED nonProvVars
    /\ calls[c].pc = "chmod"
    /\ ~Busy(ProcOf(c))
    /\ Finish(c, performDownload(binDirect, binBin))
    /\ UNCHANGED <<tempFile, binDirect, binBin, nestedBin>>

\* chmod +x failed
ChmodFail(c) ==
    /\ UNCHANGED nonProvVars
    /\ calls[c].pc = "chmod"
    /\ ~Busy(ProcOf(c))
    /\ Finish(c, "chmod")
    /\ UNCHANGED <<tempFile, binDirect, binBin, nestedBin>>

Next ==
    \/ \E p \in Procs : WarmUp(p)
    \/ \E p \in Procs, kind \in {"compress", "metadata"}, hp \in BOOLEAN : RequestInit(p, kind, hp)
    \/ \E p \in Procs, kind \in {"compress", "metadata"}, hp \in BOOLEAN : RequestReady(p, kind, hp)
    \/ \E m \in Mgrs : DirectCall(m)
    \/ \E c \in Calls : Poll(c)
    \/ \E c \in Calls : WriteLock(c, TRUE) \/ WriteLock(c, FALSE)
    \/ \E c \in Calls : DownloadDone(c)
    \/ \E c \in Calls, mode \in {"request", "timeout", "stream"} : DownloadFail(c, mode)
    \/ \E c \in Calls, layout \in Layouts : ExtractWrite(c, layout)
    \/ \E c \in Calls : ExtractDone(c)
    \/ \E c \in Calls : ExtractFail(c)
    \/ \E c \in Calls : ChmodDone(c)
    \/ \E c \in Calls : ChmodFail(c)

Spec == Init /\ [][Next]_vars

\* the same program in an environment where removing the lock file can fail
InitFaults ==
    /\ platform \in Platforms
    /\ InitProv
    /\ faults = TRUE
    /\ output = NoOutput
    /\ parsed = NoParse
    /\ InitJobs
    /\ probe = NoProbe
    /\ options = NoOptions
    /\ command = NoCommand

SpecFaults == InitFaults /\ [][Next]_vars

\* ------------------------------------------- compress-video: the command
\* inputs the command is built from
Widths    == {640, 3840, 7680, 8192}
Heights   == {360, 2160, 4050, 4320}
Qualities == {"144", "240", "360", "480", "720", "1080", "original", "none", "2160"}
Formats   == {"mp4", "webm", "none"}
HeightOverrides  == {0, 500}
BitrateOverrides == {"none", "777k"}
AudioOverrides   == {"none", "99k"}

\* a fluent-ffmpeg command nothing has been called on
EmptyCommand ==
    [built |-> TRUE, inputOptions |-> "none", videoCodec |-> "none",
     audioCodec |-> "none", audioChannels |-> 0, audioFrequency |-> 0,
     bv |-> "none", crf |-> "none", cpuUsed |-> "none", preset |-> "none",
     videoBitrate |-> "none", audioBitrate |-> "none", size |-> 0, fps |-> 0,
     profile |-> "none", pixFmt |-> "none", level |-> "none", movflags |-> "none"]

\* the switch on quality: height, maxWidth, videoBitrate, audioBitrate
ladder(quality) ==
    CASE quality = "144"  -> [height |-> 144,  maxWidth |-> 256,  videoBitrate |-> "100k",  audioBitrate |-> "32k"]
      [] quality = "240"  -> [height |-> 240,  maxWidth |-> 426,  videoBitrate |-> "200k",  audioBitrate |-> "48k"]
      [] quality = "360"  -> [height |-> 360,  maxWidth |-> 640,  videoBitrate |-> "400k",  audioBitrate |-> "64k"]
      [] quality = "480"  -> [height |-> 480,  maxWidth |-> 854,  videoBitrate |-> "600k",  audioBitrate |-> "96k"]
      [] quality = "720"  -> [height |-> 720,  maxWidth |-> 1280, videoBitrate |-> "1000k", audioBitrate |-> "128k"]
      [] quality = "1080" -> [height |-> 1080, maxWidth |-> 1920, videoBitrate |-> "2000k", audioBitrate |-> "128k"]
      [] OTHER            -> [height |-> 360,  maxWidth |-> 640,  videoBitrate |-> "400k",  audioBitrate |-> "64k"]

\* "Apply overrides if provided"
withOverrides(row, opts) ==
    [row EXCEPT !.height = IF opts.heightOverride # 0 THEN opts.heightOverride ELSE @,
                !.videoBitrate = IF opts.videoBitrateOverride # "none"
                                 THEN opts.videoBitrateOverride ELSE @,
                !.audioBitrate = IF opts.audioBitrateOverride # "none"
                                 THEN opts.audioBitrateOverride ELSE @]

\* const is8K = totalPixels >= (7680 * 4320)
is8KSource(width, height) == width * height >= 7680 * 4320

\* mutant of useHardwareAcceleration: the platform is not looked at
useHardwareAccelerationAnyPlatform(width, height, plat) == is8KSource(width, height)

\* const useHardwareAcceleration = is8K && process.platform === 'darwin'
useHardwareAcceleration(width, height, plat) ==
    is8KSource(width, height) /\ plat = "darwin"

\* mutant of pinsProfile: every MP4 command gets the options
pinsProfileAnyEncoder(isWebM, hw) == ~isWebM

\* if (!isWebM && !useHardwareAcceleration): -profile:v, -pix_fmt, -level
pinsProfile(isWebM, hw) == ~isWebM /\ ~hw

\* the else branch of quality === 'original': the re-encoding command
encode(width, height, plat, opts, quality) ==
    LET totalPixels == width * height
        is8K == is8KSource(width, height)
        is4K == totalPixels >= 3840 * 2160 /\ totalPixels < 7680 * 4320
        hwAccel == useHardwareAcceleration(width, height, plat)
        useFastPreset == ~is8K
        row == withOverrides(ladder(quality), opts)
        isWebM == opts.format = "webm"
        c0 == [EmptyCommand EXCEPT
                 !.inputOptions = IF hwAccel THEN "-hwaccel videotoolbox" ELSE @,
                 !.audioCodec = "aac", !.audioChannels = 2, !.audioFrequency = 44100]
        c1 == IF isWebM THEN
                  [c0 EXCEPT !.videoCodec = "libvpx-vp9", !.bv = row.videoBitrate,
                             !.crf = "30", !.cpuUsed = "2", !.audioCodec = "libopus",
                             !.audioBitrate = row.audioBitrate]
              ELSE IF hwAccel THEN
                  [c0 EXCEPT !.videoCodec = "h264_videotoolbox", !.bv = row.videoBitrate]
              ELSE
                  [c0 EXCEPT !.videoCodec = "libx264",
                             !.preset = IF useFastPreset THEN "ultrafast" ELSE "veryfast",
                             !.crf = IF useFastPreset THEN "28" ELSE "23",
                             !.videoBitrate = row.videoBitrate]
        c2 == [c1 EXCEPT !.size = row.maxWidth, !.fps = IF is8K THEN 24 ELSE 30]
        c3 == IF pinsProfile(isWebM, hwAccel)
              THEN [c2 EXCEPT !.profile = "main", !.pixFmt = "yuv420p", !.level = "3.1"]
              ELSE c2
    IN IF ~isWebM THEN [c3 EXCEPT !.movflags = "+faststart"] ELSE c3

\* mutant of plan: the hardware input option is added before quality is
\* looked at
planHwaccelFirst(width, height, plat, opts) ==
    LET quality == IF opts.quality = "none" THEN "360" ELSE opts.quality
        hw == width * height >= 7680 * 4320 /\ plat = "darwin"
    IN IF quality = "original"
       THEN [EmptyCommand EXCEPT !.videoCodec = "copy", !.audioCodec = "copy",
                                 !.inputOptions = IF hw THEN "-hwaccel videotoolbox" ELSE @]
       ELSE encode(width, height, plat, opts, quality)

\* the command the compress-video handler builds from the probed stream and
\* the request's options
plan(width, height, plat, opts) ==
    LET quality == IF opts.quality = "none" THEN "360" ELSE opts.quality
    IN IF quality = "original"
       THEN [EmptyCommand EXCEPT !.videoCodec = "copy", !.audioCodec = "copy"]
       ELSE encode(width, height, plat, opts, quality)

InitPlan ==
    /\ platform \in Platforms
    /\ InitProv
    /\ faults = FALSE
    /\ output = NoOutput
    /\ parsed = NoParse
    /\ InitJobs
    /\ probe \in [width : Widths, height : Heights]
    /\ options \in [quality : Qualities, format : Formats,
                    heightOverride : HeightOverrides,
                    videoBitrateOverride : BitrateOverrides,
                    audioBitrateOverride : AudioOverrides]
    /\ command = NoCommand

\* compress-video builds the command for the probed stream
BuildCommand ==
    /\ ~command.built
    /\ command' = plan(probe.width, probe.height, platform, options)
    /\ UNCHANGED <<platform, probe, options, nonPlanVars>>

NextPlan == BuildCommand

SpecPlan == InitPlan /\ [][NextPlan]_vars

\* ------------------------------------------- parseFFmpegOutput(output)
\* bounds of the diagnostic text
MaxLines  == 2
MaxTokens == 3

\* A line is what line.includes('Video:') says of it and its text as tokens:
\* the letter x, or a maximal run of decimal digits.
X == [k |-> "x", ds |-> <<>>]
Num(ds) == [k |-> "d", ds |-> ds]
DigitRuns == {<<0, 0>>, <<7>>, <<6, 4, 0>>, <<0, 0, 0, 0, 0, 7>>}
Tokens == {X} \cup {Num(ds) : ds \in DigitRuns}

Texts ==
    {t \in UNION {[1..n -> Tokens] : n \in 0..MaxTokens} :
        \A i \in 1..(Len(t) - 1) : ~(t[i].k = "d" /\ t[i + 1].k = "d")}

\* What the two other patterns find in a line is part of the line: codec is
\* group 1 of /Video:\s*(\w+)/ ("": no match; the pattern needs 'Video:'), kbps
\* the digits of group 1 of /(\d+)\s*kb\/s/ (<<>>: no match).
Codecs == {"", "h264"}
Rates == {<<>>, <<1, 5, 0, 0>>}
\* the texts of the lines that have a codec or a bit rate
StreamTexts == {<<>>, <<Num(<<6, 4, 0>>), X, Num(<<6, 4, 0>>)>>}
Lines ==
    [video : BOOLEAN, text : Texts, codec : {""}, kbps : {<<>>}]
    \cup {l \in [video : BOOLEAN, text : StreamTexts, codec : Codecs, kbps : Rates] :
            ~l.video => l.codec = ""}
Outputs == UNION {[1..n -> Lines] : n \in 1..MaxLines}

\* parseInt(s) of a string of decimal digits
RECURSIVE parseInt(_)
parseInt(ds) ==
    IF ds = <<>> THEN 0
    ELSE 10 * parseInt(SubSeq(ds, 1, Len(ds) - 1)) + ds[Len(ds)]

Min(a, b) == IF a < b THEN a ELSE b

\* line.match(/(\d{2,5})x(\d{2,5})/): the leftmost match.  Left of the x the
\* group is the last two to five digits of the run that ends there, right of
\* it the first two to five digits of the run that starts there.
resMatch(text) ==
    LET hits == {i \in 1..(Len(text) - 2) :
                    /\ text[i].k = "d" /\ Len(text[i].ds) >= 2
                    /\ text[i + 1] = X
                    /\ text[i + 2].k = "d" /\ Len(text[i + 2].ds) >= 2}
    IN IF hits = {} THEN <<>>
       ELSE LET i == CHOOSE h \in hits : \A g \in hits : h <= g
                l == text[i].ds
                r == text[i + 2].ds
            IN <<SubSeq(l, Len(l) - Min(Len(l), 5) + 1, Len(l)),
                 SubSeq(r, 1, Min(Len(r), 5))>>

\* mutant of firstVideoLine: the loop runs on to the last such line
lastVideoLine(out) ==
    IF \E i \in 1..Len(out) : out[i].video
    THEN CHOOSE i \in 1..Len(out) : out[i].video /\ \A j \in (i + 1)..Len(out) : ~out[j].video
    ELSE 0

\* the index of the first line that includes 'Video:' (0: there is none)
firstVideoLine(out) ==
    IF \E i \in 1..Len(out) : out[i].video
    THEN CHOOSE i \in 1..Len(out) : out[i].video /\ \A j \in 1..(i - 1) : ~out[j].video
    ELSE 0

\* width and height after the loop over the lines
dimensions(out) ==
    LET v == firstVideoLine(out)
        m == IF v = 0 THEN <<>> ELSE resMatch(out[v].text)
    IN IF m = <<>> THEN [width |-> 0, height |-> 0]
       ELSE [width |-> parseInt(m[1]), height |-> parseInt(m[2])]

\* codec and bitRate after the loop over the lines
codecAndBitRate(out) ==
    LET v == firstVideoLine(out)
    IN IF v = 0 THEN [codec |-> "", bitRate |-> 0]
       ELSE [codec |-> out[v].codec,
             bitRate |-> IF out[v].kbps = <<>> THEN 0 ELSE parseInt(out[v].kbps) * 1000]

\* mutant of parseFFmpegOutput: the test for zero dimensions is left out
parseFFmpegOutputUnchecked(out) ==
    LET d == dimensions(out)
        s == codecAndBitRate(out)
    IN [status |-> "ok", width |-> d.width, height |-> d.height,
        codec |-> s.codec, bitRate |-> s.bitRate]

parseFFmpegOutput(out) ==
    LET d == dimensions(out)
        s == codecAndBitRate(out)
    IN IF d.width = 0 \/ d.height = 0
       THEN [NoParse EXCEPT !.status = "threw"]
       ELSE [status |-> "ok", width |-> d.width, height |-> d.height,
             codec |-> s.codec, bitRate |-> s.bitRate]

\* nothing on the way from getVideoMetadata() to the result reads the platform
InitParse ==
    /\ platform = "linux"
    /\ InitProv
    /\ faults = FALSE
    /\ probe = NoProbe
    /\ options = NoOptions
    /\ command = NoCommand
    /\ output \in Outputs
    /\ parsed = NoParse
    /\ InitJobs

\* getVideoMetadata() hands the text to parseFFmpegOutput()
Parse ==
    /\ parsed.status = "none"
    /\ parsed' = parseFFmpegOutput(output)
    /\ UNCHANGED <<output, nonParseVars>>

NextParse == Parse

SpecParse == InitParse /\ [][NextParse]_vars

\* ------------------------------------- compress-video: running the job
\* progress.percent as fluent-ffmpeg reports it
Percents == {0, 50}

\* mutant of carriedId: every message is labelled 'unknown'
carriedIdUnknown(id) == "unknown"

\* fileId || 'unknown'
carriedId(id) == IF id \in FalsyIds THEN "unknown" ELSE id

\* Compressor.compress(file, options, onProgress, fileId) down to the invoke of
\* 'compress-video': the listener is registered if (onProgress && fileId).
\* The caller gives each job an id of its own, or none.
Submit(j, id, cb) ==
    /\ jobs[j].state = "idle"
    /\ \A i \in 1..(j - 1) : jobs[i].state # "idle"
    /\ id \in FalsyIds \/ \A i \in Jobs : jobs[i].state = "idle" \/ jobs[i].fileId # id
    /\ jobs' = [jobs EXCEPT ![j] = [NoJob EXCEPT !.state = "probing", !.fileId = id]]
    /\ listeners' = IF cb /\ id \notin FalsyIds
                    THEN listeners \cup {[job |-> j, fileId |-> id]}
                    ELSE listeners
    /\ UNCHANGED <<sent, delivered, nonJobVars>>

\* the handler throws before the command is run (no FFmpeg, no filePath, the
\* probe failed): the invocation rejects
ProbeFail(j) ==
    /\ jobs[j].state = "probing"
    /\ jobs' = [jobs EXCEPT ![j].state = "rejected", ![j].settles = @ + 1]
    /\ UNCHANGED <<listeners, sent, delivered, nonJobVars>>

\* command.save(outputPath): the encoder process is started
Start(j) ==
    /\ jobs[j].state = "probing"
    /\ jobs' = [jobs EXCEPT ![j].state = "running"]
    /\ UNCHANGED <<listeners, sent, delivered, nonJobVars>>

\* on('progress'): sent if progress.percent is truthy; every listener of the
\* renderer gets the message and passes it on if data.fileId === fileId
Progress(j, percent) ==
    /\ jobs[j].state = "running"
    /\ IF percent # 0
       THEN LET data == [job |-> j, fileId |-> carriedId(jobs[j].fileId), percent |-> percent]
            IN /\ sent' = sent \cup {data}
               /\ delivered' = delivered \cup
                     {[to |-> l.job, from |-> j] : l \in {k \in listeners : k.fileId = data.fileId}}
       ELSE UNCHANGED <<sent, delivered>>
    /\ UNCHANGED <<jobs, listeners, nonJobVars>>

\* on('end'): resolve({outputName, outputPath, format})
ProcessEnd(j) ==
    /\ jobs[j].state = "running"
    /\ jobs' = [jobs EXCEPT ![j].state = "resolved", ![j].settles = @ + 1]
    /\ UNCHANGED <<listeners, sent, delivered, nonJobVars>>

\* on('error'): reject(err.message)
ProcessError(j) ==
    /\ jobs[j].state = "running"
    /\ jobs' = [jobs EXCEPT ![j].state = "rejected", ![j].settles = @ + 1]
    /\ UNCHANGED <<listeners, sent, delivered, nonJobVars>>

NextJob ==
    \/ \E j \in Jobs, id \in FileIds, cb \in BOOLEAN : Submit(j, id, cb)
    \/ \E j \in Jobs : ProbeFail(j)
    \/ \E j \in Jobs : Start(j)
    \/ \E j \in Jobs, percent \in Percents : Progress(j, percent)
    \/ \E j \in Jobs : ProcessEnd(j)
    \/ \E j \in Jobs : ProcessError(j)

SpecJob == Init /\ [][NextJob]_vars

\* the handler runs on when its awaits settle, and the encoder process exits
FairSpecJob ==
    /\ SpecJob
    /\ \A j \in Jobs : WF_vars(ProbeFail(j) \/ Start(j))
    /\ \A j \in Jobs : WF_vars(ProcessEnd(j) \/ ProcessError(j))

TypeOK ==
    /\ platform \in Platforms
    /\ lockFile \in 0..NCalls
    /\ \A c \in Calls : calls[c].polls \in 0..MaxPolls


\* ------------------------------------------------------------- properties
HasSettled(c) == calls[c].pc \in {"resolved", "rejected"}
Issued(c) == calls[c].pc # "unused" /\ calls[c].mgr # 0

\* C1: the ensureFFmpeg() calls issued on one manager before the first of them
\* settles start at most one acquisition, and all of them settle with the same
\* outcome (the same path, or the same error).
C1_OneAttemptSameOutcome ==
    \A c, d \in Calls :
        (Issued(c) /\ Issued(d) /\ calls[c].mgr = calls[d].mgr
                   /\ calls[c].group = calls[d].group)
        => /\ (calls[c].prov /\ calls[d].prov) => c = d
           /\ (HasSettled(c) /\ HasSettled(d)) => calls[c].result = calls[d].result

\* some attempt went on after its lock file could not be written
LockWriteFailed ==
    \E c \in Calls : /\ calls[c].prov /\ ~calls[c].wrote
                     /\ calls[c].pc \notin {"waiting", "locking"}

\* C2: in one OS process the archive is downloaded at most once while the tool
\* is being acquired: the warm-up and the requests of the process issue at most
\* one download between them.  Stated for the runs the claim is about: no
\* acquisition of the process failed (a retry after a failure is a new
\* download), every lock file write went through, no wait loop ran out.
C2_OneDownloadPerProcess ==
    (~LockWriteFailed /\ ~ceilingHit) =>
        \A p \in Procs : dlFailed[p] = 0 => dlCount[p] <= 1

\* C3: when an attempt that wrote the lock file settles, by success or by any
\* failure of download, extraction or chmod, the lock file is absent.
C3_LockRemovedAtSettle ==
    [][\A c \in Calls :
        (Driving(c) /\ calls[c].wrote /\ calls'[c].pc \in {"resolved", "rejected"})
        => lockFile' = 0]_vars

C3_Witness ==
    \E c \in Calls : /\ calls[c].pc = "rejected" /\ calls[c].wrote
                     /\ calls[c].result \in {"network", "extract", "chmod"}
                     /\ lockFile = 0

\* C4: as long as no wait loop has run out, at most one process at a time is
\* between writing the lock file and removing it.
Holding(c) == calls[c].pc \in {"downloading", "extracting", "chmod"} /\ calls[c].wrote

C4_MutualExclusion ==
    ~ceilingHit =>
        \A c, d \in Calls : (Holding(c) /\ Holding(d)) => ProcOf(c) = ProcOf(d)

\* C5: once some ensureFFmpeg() has found the binary present and stored its
\* path, no step of any ensureFFmpeg() issues a download or extracts again.
C5_NoOverwriteOnceVerified ==
    [][verified =>
        /\ dlCount' = dlCount
        /\ \A c \in Calls : calls'[c].extracted => calls[c].extracted]_vars

\* C6: a lock file that stays delays the caller by at most MaxPolls polls: each
\* poll counts one, the caller is never still waiting after MaxPolls of them,
\* it leaves the loop at the poll that finds the lock file gone and at the
\* MaxPolls-th poll whatever it finds, and from there its next step writes its
\* own lock file and issues the download.
C6_BoundedWait ==
    [][\A c \in Calls :
        /\ (calls[c].pc = "waiting" /\ calls'[c] # calls[c])
           => /\ calls'[c].polls = calls[c].polls + 1
              /\ calls'[c].polls <= MaxPolls
              /\ calls'[c].pc = IF lockFile = 0 \/ calls'[c].polls = MaxPolls
                                THEN "locking" ELSE "waiting"
        /\ (calls[c].pc = "locking" /\ calls'[c] # calls[c])
           => /\ calls'[c].pc = "downloading"
              /\ lockFile' \in {c, lockFile}
              /\ calls'[c].wrote = (lockFile' = c)
              /\ dlCount'[ProcOf(c)] = dlCount[ProcOf(c)] + 1]_vars

C6_Witness ==
    \E c \in Calls : /\ calls[c].pc = "locking" /\ calls[c].polls = MaxPolls
                     /\ lockFile # 0

\* C7: on a platform without an archive URL every ensureFFmpeg() rejects with
\* the unsupported-platform error, and the directory, the lock file and the
\* temp archive are never created and no download request is issued.
C7_UnsupportedPlatform ==
    platform \notin FFMPEG_URLS =>
        /\ ~dirExists /\ lockFile = 0 /\ ~tempFile
        /\ ~binDirect /\ ~binBin /\ ~nestedBin
        /\ \A p \in Procs : dlCount[p] = 0
        /\ \A c \in Calls : Issued(c) =>
               calls[c].pc = "rejected" /\ calls[c].result = "unsupported"

C7_Witness ==
    /\ platform \notin FFMPEG_URLS
    /\ \E c \in Calls : calls[c].pc = "rejected" /\ calls[c].result = "unsupported"

\* C8: a manager's ffmpegPath is null or a path that existed when it was
\* stored; a call resolves only with a path at which the binary is (direct or
\* bin/); an attempt whose extraction completed with the binary at neither
\* place rejects with the provisioning error.
C8_PathChecked ==
    [][/\ \A m \in Mgrs :
            ffmpegPath'[m] # ffmpegPath[m]
            => /\ IsPath(ffmpegPath'[m])
               /\ existsSync(ffmpegPath'[m], binDirect', binBin')
       /\ \A c \in Calls :
            (calls[c].pc # "resolved" /\ calls'[c].pc = "resolved")
            => /\ IsPath(calls'[c].result)
               /\ existsSync(calls'[c].result, binDirect', binBin')
               /\ ffmpegPath'[calls'[c].mgr] = calls'[c].result
       /\ \A c \in Calls :
            (calls[c].pc \in {"extracting", "chmod"} /\ HasSettled(c)'
                /\ getFFmpegPath(dirExists', binDirect', binBin') = "null"
                /\ calls'[c].result \notin {"extract", "chmod"})
            => calls'[c].pc = "rejected" /\ calls'[c].result = "incomplete"]_vars

C8_Witness ==
    \E c, d \in Calls : /\ calls[c].pc = "rejected" /\ calls[c].result = "incomplete"
                        /\ calls[d].pc = "resolved" /\ ffmpegPath[calls[d].mgr] = calls[d].result

\* C9: a compress-video or get-video-metadata request without a file path is
\* rejected with the missing-path error and starts no provisioning.
C9_MissingInputFirst ==
    \A c \in Calls :
        (calls[c].kind \in {"compress", "metadata"} /\ calls[c].pc # "unused"
            /\ ~calls[c].hasPath)
        => /\ ~calls[c].prov
           /\ calls[c].pc \in {"resolved", "rejected", "done"} => calls[c].outcome = "missingInput"


\* C10: quality 'original' builds a command that copies the video and the
\* audio stream and sets nothing else, whatever the probed size, the platform,
\* the format and the overrides.
C10_OriginalIsStreamCopy ==
    (command.built /\ options.quality = "original")
    => command = [EmptyCommand EXCEPT !.videoCodec = "copy", !.audioCodec = "copy"]

C10_Witness ==
    /\ command.built /\ options.quality = "original"
    /\ probe.width * probe.height >= 7680 * 4320 /\ platform = "darwin"
    /\ options.format = "webm" /\ options.videoBitrateOverride # "none"
    /\ command.videoCodec = "copy"


\* the request asks for re-encoding (options.quality || '360' is not 'original')
Reencodes == command.built /\ options.quality # "original"

\* C11: for a re-encoding request the hardware acceleration option is set
\* exactly when width*height >= 7680*4320 on darwin; every other source and
\* platform gets no such option and a software video encoder.
C11_HardwareExactlyFor8KOnDarwin ==
    Reencodes =>
        LET hw == probe.width * probe.height >= 7680 * 4320 /\ platform = "darwin"
        IN /\ (command.inputOptions = "-hwaccel videotoolbox") <=> hw
           /\ ~hw => /\ command.inputOptions = "none"
                     /\ command.videoCodec \in {"libx264", "libvpx-vp9"}

C11_Witness ==
    /\ Reencodes /\ platform = "darwin" /\ options.format = "mp4"
    /\ probe.width * probe.height = 7680 * 4320 /\ probe.width # 7680
    /\ command.inputOptions = "-hwaccel videotoolbox"
    /\ command.videoCodec = "h264_videotoolbox"

\* C12: with format webm the command carries no hardware acceleration option
\* of any kind and encodes with software VP9 and Opus, also for an 8K source
\* on darwin.
C12_WebmNeverHardware ==
    (Reencodes /\ options.format = "webm")
    => /\ command.inputOptions = "none"
       /\ command.videoCodec = "libvpx-vp9"
       /\ command.audioCodec = "libopus"

\* the video bitrate the command carries, through -b:v or videoBitrate()
CommandVideoBitrate == IF command.bv # "none" THEN command.bv ELSE command.videoBitrate

\* the options of the request with the height override taken out
WithoutHeightOverride == [options EXCEPT !.heightOverride = 0]

\* C13: in a re-encoding command each override that is present replaces the
\* ladder value (video bitrate, audio bitrate, height) on its own, and an
\* absent override leaves the ladder value in the command.  For the height,
\* which has no field of its own in the command: an override that differs from
\* the ladder height changes the command.
C13_OverridesReplaceLadder ==
    Reencodes =>
        LET row == ladder(IF options.quality = "none" THEN "360" ELSE options.quality)
        IN /\ CommandVideoBitrate = IF options.videoBitrateOverride # "none"
                                    THEN options.videoBitrateOverride
                                    ELSE row.videoBitrate
           /\ command.audioBitrate = IF options.audioBitrateOverride # "none"
                                     THEN options.audioBitrateOverride
                                     ELSE row.audioBitrate
           /\ (options.heightOverride # 0 /\ options.heightOverride # row.height)
              => command # plan(probe.width, probe.height, platform, WithoutHeightOverride)

\* C19: the temporary archive exists during an acquisition only: when no
\* acquisition is under way in any process (each has finished, by success or
\* by a download or extraction failure, or none has started), the temp archive
\* file is absent.
C19_TempArchiveTransient ==
    (\A c \in Calls : ~Driving(c)) => ~tempFile

\* the calls that were handed the promise of call c's attempt
JoinedTo(c) == {d \in Calls : calls[d].pc = "joined" /\ calls[d].join = c}

\* C18: when an attempt fails (network, timeout, extraction), every call
\* waiting on it is rejected with that error in the same step, no download is
\* started by that step, and the manager's in-flight marker is cleared; the next
\* ensureFFmpeg() on that manager, with the binary still absent, starts an
\* attempt of its own instead of being handed the old promise.
C18_FailureSurfacedNoRetry ==
    [][\A c \in Calls :
        /\ (Driving(c) /\ calls'[c].pc = "rejected") =>
              /\ calls'[c].result \in {"network", "extract", "chmod", "incomplete"}
              /\ \A d \in JoinedTo(c) : /\ calls'[d].pc = "rejected"
                                        /\ calls'[d].result = calls'[c].result
              /\ downloadPromise'[calls[c].mgr] = 0
              /\ dlCount' = dlCount
              /\ \A d \in Calls : calls'[d].mgr = calls[c].mgr => ~Driving(d)'
        /\ (/\ calls[c].pc = "unused" /\ calls'[c].pc # "unused"
            /\ \E d \in Calls : calls[d].mgr = calls'[c].mgr /\ calls[d].pc = "rejected"
            /\ Pending(calls'[c].mgr) = {}
            /\ ~binDirect /\ ~binBin /\ platform \in FFMPEG_URLS) =>
              /\ Driving(c)'
              /\ downloadPromise'[calls'[c].mgr] = c
    ]_vars

C18_Witness ==
    \E c, e \in Calls :
        /\ calls[c].pc = "rejected" /\ calls[c].result \in {"network", "extract"}
        /\ calls[e].mgr = calls[c].mgr /\ Driving(e)
        /\ downloadPromise[calls[c].mgr] = e

C20_LockCleanupBestEffort ==
    [][\A c \in Calls :
         /\ (calls[c].pc = "locking" /\ calls'[c].pc # "locking")
               => calls'[c].pc = "downloading"
         /\ (Driving(c) /\ HasSettled(c)')
               => calls'[c].result \in {"direct", "bin", "network", "extract",
                                        "chmod", "incomplete"}
    ]_vars

\* the text of a line holds a resolution: two runs of at least two digits
\* joined by an x
HasResolution(line) ==
    \E i \in 1..(Len(line.text) - 2) :
        /\ line.text[i].k = "d" /\ Len(line.text[i].ds) >= 2
        /\ line.text[i + 1].k = "x"
        /\ line.text[i + 2].k = "d" /\ Len(line.text[i + 2].ds) >= 2

\* C15: parseFFmpegOutput() never returns width 0 or height 0; text without a
\* line that includes 'Video:', or whose first such line holds no resolution,
\* makes it throw.
C15_NoZeroDimensions ==
    parsed.status # "none" =>
        /\ parsed.status = "ok" => parsed.width > 0 /\ parsed.height > 0
        /\ (\A i \in 1..Len(output) : ~output[i].video) => parsed.status = "threw"
        /\ \A i \in 1..Len(output) :
              (/\ output[i].video /\ \A j \in 1..(i - 1) : ~output[j].video
               /\ ~HasResolution(output[i]))
              => parsed.status = "threw"

C15_Witness ==
    /\ parsed.status = "threw"
    /\ Len(output) = 2
    /\ output[1].video /\ output[1].text = <<Num(<<6, 4, 0>>), X, Num(<<0, 0>>)>>
    /\ output[2].video /\ output[2].text = <<Num(<<6, 4, 0>>), X, Num(<<6, 4, 0>>)>>

JobSettled(j) == jobs[j].state \in {"resolved", "rejected"}

NoOverrides ==
    /\ options.heightOverride = 0
    /\ options.videoBitrateOverride = "none"
    /\ options.audioBitrateOverride = "none"

\* C21: a re-encoding command built without overrides carries the max-width,
\* the video bitrate and the audio bitrate of the row of the requested tier,
\* the 360 row (640, 400k, 64k) for an unknown or absent tier, and its size
\* option fixes the width to that max-width.
C21_LadderRowInCommand ==
    (Reencodes /\ NoOverrides) =>
        LET q == options.quality
            row == IF q = "144" THEN <<256, "100k", "32k">>
                   ELSE IF q = "240" THEN <<426, "200k", "48k">>
                   ELSE IF q = "480" THEN <<854, "600k", "96k">>
                   ELSE IF q = "720" THEN <<1280, "1000k", "128k">>
                   ELSE IF q = "1080" THEN <<1920, "2000k", "128k">>
                   ELSE <<640, "400k", "64k">>
        IN /\ command.size = row[1]
           /\ CommandVideoBitrate = row[2]
           /\ command.audioBitrate = row[3]

\* C22: in a re-encoding command -movflags +faststart is present exactly when
\* the format is not webm; profile main, pixel format yuv420p and level 3.1
\* are present exactly when the format is not webm and the source is not an 8K
\* source on darwin; a command with the hardware encoder has none of the three.
C22_ContainerFlags ==
    Reencodes =>
        LET webm == options.format = "webm"
            hw == probe.width * probe.height >= 7680 * 4320 /\ platform = "darwin"
            pinned == /\ command.profile = "main"
                      /\ command.pixFmt = "yuv420p"
                      /\ command.level = "3.1"
            unpinned == /\ command.profile = "none"
                        /\ command.pixFmt = "none"
                        /\ command.level = "none"
        IN /\ (command.movflags = "+faststart") <=> ~webm
           /\ webm => command.movflags = "none"
           /\ IF ~webm /\ ~hw THEN pinned ELSE unpinned
           /\ command.videoCodec = "h264_videotoolbox" => unpinned

C22_Witness ==
    /\ Reencodes /\ options.format # "webm" /\ platform = "darwin"
    /\ command.videoCodec = "h264_videotoolbox"
    /\ command.movflags = "+faststart"
    /\ command.profile = "none" /\ command.pixFmt = "none" /\ command.level = "none"

\* line i is the first line of the text that includes 'Video:'
IsFirstVideo(i) ==
    /\ i \in 1..Len(output)
    /\ output[i].video
    /\ \A j \in 1..(i - 1) : ~output[j].video

\* C23: the result is made from the first line that includes 'Video:' alone:
\* parsing the whole text gives what parsing that line by itself gives; if it
\* holds no resolution the parse throws whatever later lines hold; in a result
\* the codec is the one of that line, "" if it has none, and the bit rate is
\* 1000 times the kb/s figure of that line, 0 if it has none.
C23_FirstVideoLineOnly ==
    parsed.status # "none" =>
        \A i \in 1..Len(output) : IsFirstVideo(i) =>
            /\ parsed = parseFFmpegOutput(<<output[i]>>)
            /\ ~HasResolution(output[i]) => parsed.status = "threw"
            /\ parsed.status = "ok" =>
                  /\ parsed.codec = output[i].codec
                  /\ output[i].kbps = <<>> => parsed.bitRate = 0
                  /\ output[i].kbps = <<1, 5, 0, 0>> => parsed.bitRate = 1500000

C23_Witness ==
    /\ Len(output) = 2
    /\ output[1] = [video |-> TRUE, codec |-> "", kbps |-> <<>>,
                    text |-> <<Num(<<0, 0, 0, 0, 0, 7>>), X, Num(<<6, 4, 0>>)>>]
    /\ output[2] = [video |-> TRUE, codec |-> "h264", kbps |-> <<1, 5, 0, 0>>,
                    text |-> <<Num(<<6, 4, 0>>), X, Num(<<6, 4, 0>>)>>]
    /\ parsed = [status |-> "ok", width |-> 7, height |-> 640, codec |-> "", bitRate |-> 0]

\* call c is between the start of the extraction and the end of chmod +x
Installing(c) == calls[c].pc \in {"extracting", "chmod"}

\* C24: no ensureFFmpeg() call returns a path by the fast path while a call
\* of another manager (of the same or of another process) is between the start
\* of the extraction and the end of chmod +x.
C24_FastPathSeesInstalledBinaryOnly ==
    [][\A d \in Calls :
          (calls[d].pc = "unused" /\ calls'[d].pc = "resolved")
          => \A c \in Calls : Installing(c) => calls[c].mgr = calls'[d].mgr
    ]_vars

\* C25: a process whose attempt ends leaves the lock file alone when the file
\* was written by an attempt of another process that is still under way.
C25_LockRemovedByWriterOnly ==
    [][\A c \in Calls :
          (/\ Driving(c) /\ HasSettled(c)'
           /\ lockFile # 0 /\ lockFile # c
           /\ Driving(lockFile) /\ ProcOf(lockFile) # ProcOf(c))
          => lockFile' = lockFile
    ]_vars

====
